---- MODULE Spec2Model ----
(***************************************************************************)
(* Model of lcd-example-bluepill: the SysTick based delays (src/main.rs    *)
(* delay_us, src/util.rs delay_us), the clock bring-up (setup and          *)
(* wait_condition) and the GPIOB binding of the HD44780 signals            *)
(* (LcdHardware).                                                          *)
(*                                                                         *)
(* Numbers: TLC integers are 32-bit signed, so a Rust u32 is kept as the   *)
(* pair [hi |-> bits 31..24, lo |-> bits 23..0]; the arithmetic on it is   *)
(* 32-bit wrapping (or overflow-checked, as the build decides).            *)
(***************************************************************************)
EXTENDS Integers, Sequences, FiniteSets, TLC

VARIABLES
    overflow_checks, \* build profile: TRUE = arithmetic overflow panics (debug)
    syst_cur,        \* SysTick current value register (24 bit)
    syst_rvr,        \* SysTick reload value register (24 bit)
    syst_enable,     \* SysTick CSR.ENABLE
    syst_flag,       \* SysTick CSR.COUNTFLAG
    rcc_cr,          \* RCC_CR: hseon, hserdy, pllon, pllrdy
    rcc_cfgr,        \* RCC_CFGR: sw, sws, dividers
    flash_latency,   \* FLASH_ACR.LATENCY (wait states)
    gpiob_odr,       \* set of the pins of GPIOB whose output latch is high
    pc,              \* position of the program
    delay,           \* argument of delay_us (u32)
    stop_at,         \* local of main.rs delay_us (u32)
    c0,              \* counter value read at main.rs:21
    elapsed,         \* counter ticks since the wait began
    fine,            \* single-tick spins taken in this wait
    latency,         \* ticks between the reads of main.rs:21 and main.rs:25
    wait_id,         \* the wait_condition call in progress
    observed,        \* status conditions wait_condition has seen true
    writes,          \* register writes of the current setup call, in order
    last_call,       \* the last LcdHardware call and the BSRR writes it made
    gpiob_out,       \* set of the pins of GPIOB configured as push-pull outputs
    loop_i,          \* index of a `for i in 0..4` loop in progress
    calls            \* calls of delay_us made on behalf of the display

systVars  == <<syst_cur, syst_rvr, syst_enable, syst_flag>>
rccVars   == <<rcc_cr, rcc_cfgr, flash_latency>>
cfgVars   == <<gpiob_out, loop_i, calls>>
gpioVars  == <<gpiob_odr, last_call, cfgVars>>
delayVars == <<delay, stop_at, c0, elapsed, fine, latency>>
setupVars == <<wait_id, observed, writes>>
vars == <<overflow_checks, systVars, rccVars, gpioVars, pc, delayVars, setupVars>>

----------------------------------------------------------------------------
(* Bounds of the model *)

\* single-tick iterations of a busy-wait that are followed one by one
MaxFine == 3
\* counter ticks between the read of main.rs:21 and the first read of main.rs:25
MaxLatency == 4
\* delays 0..MaxSmallDelay and this many values on each side of a boundary
MaxSmallDelay == 3
MaxNear == 1
\* calls of delay_us made on behalf of the display
MaxCalls == 3

----------------------------------------------------------------------------
(* Program and hardware constants *)

Two23 == 8388608
Two24 == 16777216
\* mask of main.rs:25
SIGN_MASK == 8388608
\* multiplier of main.rs:21
TICKS_PER_US == 9
\* reload value of main.rs:180, assumed by main.rs:17
MAX_RELOAD == 16777215

----------------------------------------------------------------------------
(* u32 arithmetic *)

U32(h, l) == [hi |-> h, lo |-> l]
FromInt(n) == U32(n \div Two24, n % Two24)

\* the product delay * 9 as a mathematical integer, hi unbounded
Product(d) ==
    LET p == d.lo * TICKS_PER_US
    IN  U32(d.hi * TICKS_PER_US + p \div Two24, p % Two24)

MulOverflows(d) == Product(d).hi >= 256
WrappingMul9(d) == U32(Product(d).hi % 256, Product(d).lo)

WrappingSub(a, b) ==
    LET l == a.lo - b.lo
        borrow == IF l < 0 THEN 1 ELSE 0
    IN  U32((a.hi - b.hi - borrow + 512) % 256, (l + Two24) % Two24)

SubOverflows(a, b) == a.hi < b.hi \/ (a.hi = b.hi /\ a.lo < b.lo)

\* x & 0x00800000, as 0 or the mask
AndSignMask(x) == ((x.lo \div SIGN_MASK) % 2) * SIGN_MASK

\* n <= p for an integer n below 2^31 and an unbounded product p
AtLeast(n, p) == p.hi < 128 /\ p.hi * Two24 + p.lo <= n
BelowHalfRange(p) == p.hi = 0 /\ p.lo < Two23

----------------------------------------------------------------------------
(* SysTick: a 24-bit down counter. From 0 it reloads syst_rvr; COUNTFLAG   *)
(* is set when it counts from 1 to 0.                                      *)

CounterAfter(cur, rvr, k) ==
    IF k <= cur THEN cur - k
    ELSE rvr - ((k - cur - 1) % (rvr + 1))

\* whether the counter counts from 1 to 0 within k ticks
WrapsWithin(cur, rvr, k) ==
    IF cur >= 1 THEN k >= cur
    ELSE rvr >= 1 /\ k >= rvr + 1

----------------------------------------------------------------------------
(* main.rs delay_us (snapshot/compare) *)

\* main.rs:21, the subtrahend (delay * 9) - 1
Ticks(d) == WrappingSub(WrappingMul9(d), FromInt(1))

\* main.rs:21 panics in a build with overflow checks
Line21Overflows(d) == MulOverflows(d) \/ SubOverflows(WrappingMul9(d), FromInt(1))

StopAt(cur, d) == WrappingSub(FromInt(cur), Ticks(d))

\* the loop condition testing bit 22 instead of bit 23
SpinsBit22(cur, stop) == (WrappingSub(FromInt(cur), stop).lo \div (SIGN_MASK \div 2)) % 2 = 0

\* the loop condition comparing for equality instead of testing the sign bit
SpinsUntilEqual(cur, stop) == WrappingSub(FromInt(cur), stop).lo # MAX_RELOAD

\* main.rs:25, the loop condition
Spins(cur, stop) == AndSignMask(WrappingSub(FromInt(cur), stop)) = 0

\* main.rs:21
DelaySnapshot ==
    /\ pc = "delay_21"
    /\ IF overflow_checks /\ Line21Overflows(delay)
       THEN /\ pc' = "panic_21"
            /\ UNCHANGED <<systVars, delayVars>>
       ELSE \E l \in 0..MaxLatency :
            /\ l > 0 => syst_enable
            /\ c0' = syst_cur
            /\ stop_at' = StopAt(syst_cur, delay)
            /\ syst_cur' = CounterAfter(syst_cur, syst_rvr, l)
            /\ syst_flag' = (syst_flag \/ WrapsWithin(syst_cur, syst_rvr, l))
            /\ elapsed' = l
            /\ latency' = l
            /\ fine' = 0
            /\ pc' = "delay_25"
            /\ UNCHANGED <<syst_rvr, syst_enable, delay>>
    /\ UNCHANGED <<overflow_checks, rccVars, gpioVars, setupVars>>

\* ticks to the first counter value at which the loop of main.rs:25 ends
Distance(cur, stop) == WrappingSub(FromInt(cur), stop).lo + 1

\* The loop reads the counter more often than it ticks: k iterations that
\* all spin are taken as one step of k ticks. With the counter running
\* modulo 2^24 the values on which the loop spins are one arc of 2^23
\* values, so it spins on all the values of a shorter run whose ends spin.
SpinSteps(cur, stop) ==
    {k \in {1, Distance(cur, stop) \div 2, Distance(cur, stop)} :
        /\ k >= 1
        /\ k <= Two23
        /\ k = 1 => (fine < MaxFine \/ Distance(cur, stop) = 1)
        /\ k > 1 => syst_rvr = MAX_RELOAD
        /\ Spins(CounterAfter(cur, syst_rvr, k - 1), stop)}

\* main.rs:25, an iteration that spins, and the tick that follows it
DelaySpin ==
    /\ pc = "delay_25"
    /\ Spins(syst_cur, stop_at)
    /\ syst_enable
    /\ \E k \in SpinSteps(syst_cur, stop_at) :
        /\ syst_cur' = CounterAfter(syst_cur, syst_rvr, k)
        /\ syst_flag' = (syst_flag \/ WrapsWithin(syst_cur, syst_rvr, k))
        /\ elapsed' = elapsed + k
        /\ fine' = IF k = 1 THEN fine + 1 ELSE fine
    /\ UNCHANGED <<overflow_checks, syst_rvr, syst_enable, rccVars, gpioVars,
                   pc, delay, stop_at, c0, latency, setupVars>>

\* main.rs:25, the iteration that ends the loop
DelayExit ==
    /\ pc = "delay_25"
    /\ ~Spins(syst_cur, stop_at)
    /\ pc' = "delay_ret"
    /\ UNCHANGED <<overflow_checks, systVars, rccVars, gpioVars, delayVars, setupVars>>

----------------------------------------------------------------------------
(* Inputs of the delay: counter start values and requested delays *)

HalfRangeDelay == Two23 \div TICKS_PER_US

StartValues ==
    (0..MaxNear) \cup {Two23 - 1, Two23, HalfRangeDelay * TICKS_PER_US}
    \cup {MAX_RELOAD - n : n \in 0..MaxNear}

Delays ==
    {FromInt(n) : n \in 0..MaxSmallDelay}
    \cup {FromInt(HalfRangeDelay - n) : n \in 0..MaxNear}
    \cup {FromInt(HalfRangeDelay + 1 + n) : n \in 0..MaxNear}
    \cup {FromInt(Two24 \div TICKS_PER_US + n) : n \in 0..MaxNear}
    \cup {FromInt(1000000), FromInt(2147483647)}
    \cup {U32(28, 7456540 + n) : n \in 0..MaxNear}

ResetRcc ==
    /\ rcc_cr = [hseon |-> FALSE, hserdy |-> FALSE, pllon |-> FALSE, pllrdy |-> FALSE]
    /\ rcc_cfgr = [sw |-> "HSI", sws |-> "HSI", dividers |-> FALSE]
    /\ flash_latency = 0

InitDelay ==
    /\ overflow_checks \in BOOLEAN
    /\ syst_cur \in StartValues
    /\ syst_rvr = MAX_RELOAD
    /\ syst_enable = TRUE
    /\ syst_flag = FALSE
    /\ ResetRcc
    /\ gpiob_odr = {}
    /\ last_call = [op |-> "none", arg |-> 0, bsrr_writes |-> 0]
    /\ gpiob_out = {}
    /\ loop_i = 0
    /\ calls = 0
    /\ pc = "delay_21"
    /\ delay \in Delays
    /\ stop_at = FromInt(0)
    /\ c0 = 0
    /\ elapsed = 0
    /\ fine = 0
    /\ latency = 0
    /\ wait_id = "none"
    /\ observed = {}
    /\ writes = <<>>

NextDelay == DelaySnapshot \/ DelaySpin \/ DelayExit

SpecDelay == InitDelay /\ [][NextDelay]_vars

\* the loop runs as long as the processor does
FairDelay == SpecDelay /\ WF_vars(NextDelay)

----------------------------------------------------------------------------
(* main.rs wait_condition and setup (clock bring-up) *)

\* reload values of main.rs:84 and main.rs:119
TIMEOUT_RELOAD == 49999
RELOAD_1MS == 8999
\* FLASH_ACR.LATENCY of main.rs:88
TWO_WAIT_STATES == 2

Write(reg, value) == Append(writes, <<reg, value>>)

\* the closures passed to wait_condition at main.rs:92, 107 and 113
Condition(id) ==
    CASE id = "HSE" -> rcc_cr.hserdy
      [] id = "PLL" -> rcc_cr.pllrdy
      [] id = "SWS" -> rcc_cfgr.sws = "PLL"

\* where setup goes on when wait_condition returns true
OnReady(id) ==
    CASE id = "HSE" -> "setup_97"
      [] id = "PLL" -> "setup_112"
      [] id = "SWS" -> "setup_119"

\* a caller that goes on whatever wait_condition returns
IgnoreTimeout(id) == OnReady(id)

\* the panics of main.rs:93, 108 and 114, when wait_condition returns false
OnTimeout(id) ==
    CASE id = "HSE" -> "panic_93"
      [] id = "PLL" -> "panic_108"
      [] id = "SWS" -> "panic_114"

\* the entry check made only after the timeout counter is programmed
SetupEntryCheckLate ==
    /\ pc = "setup_79"
    /\ syst_rvr' = TIMEOUT_RELOAD
    /\ writes' = Write("SYST_RVR", TIMEOUT_RELOAD)
    /\ pc' = IF rcc_cr.pllrdy THEN "panic_80" ELSE "setup_85"
    /\ UNCHANGED <<overflow_checks, syst_cur, syst_enable, syst_flag, rccVars,
                   gpioVars, delayVars, wait_id, observed>>

\* main.rs:79-81
SetupEntryCheck ==
    /\ pc = "setup_79"
    /\ pc' = IF rcc_cr.pllrdy THEN "panic_80" ELSE "setup_84"
    /\ UNCHANGED <<overflow_checks, systVars, rccVars, gpioVars, delayVars, setupVars>>

\* main.rs:84
SetupTimeoutReload ==
    /\ pc = "setup_84"
    /\ syst_rvr' = TIMEOUT_RELOAD
    /\ writes' = Write("SYST_RVR", TIMEOUT_RELOAD)
    /\ pc' = "setup_85"
    /\ UNCHANGED <<overflow_checks, syst_cur, syst_enable, syst_flag, rccVars,
                   gpioVars, delayVars, wait_id, observed>>

\* setup going on to the waits with the counter left disabled
SetupLeaveCounterOff ==
    /\ pc = "setup_85"
    /\ pc' = "setup_88"
    /\ UNCHANGED <<overflow_checks, systVars, rccVars, gpioVars, delayVars, setupVars>>

\* main.rs:85
SetupEnableCounter ==
    /\ pc = "setup_85"
    /\ syst_enable' = TRUE
    /\ writes' = Write("SYST_CSR", 1)
    /\ pc' = "setup_88"
    /\ UNCHANGED <<overflow_checks, syst_cur, syst_rvr, syst_flag, rccVars,
                   gpioVars, delayVars, wait_id, observed>>

\* main.rs:88
SetupFlashLatency ==
    /\ pc = "setup_88"
    /\ flash_latency' = TWO_WAIT_STATES
    /\ writes' = Write("FLASH_ACR", TWO_WAIT_STATES)
    /\ pc' = "setup_91"
    /\ UNCHANGED <<overflow_checks, systVars, rcc_cr, rcc_cfgr, gpioVars,
                   delayVars, wait_id, observed>>

\* HSE started and the PLL configured without waiting for HSE to be ready
SetupStartHseNoWait ==
    /\ pc = "setup_91"
    /\ rcc_cr' = [rcc_cr EXCEPT !.hseon = TRUE]
    /\ writes' = Write("RCC_CR.HSEON", 1)
    /\ pc' = "setup_97"
    /\ UNCHANGED <<overflow_checks, systVars, rcc_cfgr, flash_latency, gpioVars,
                   delayVars, wait_id, observed>>

\* main.rs:91-92, up to the call of wait_condition
SetupStartHse ==
    /\ pc = "setup_91"
    /\ rcc_cr' = [rcc_cr EXCEPT !.hseon = TRUE]
    /\ writes' = Write("RCC_CR.HSEON", 1)
    /\ wait_id' = "HSE"
    /\ pc' = "wait_64"
    /\ UNCHANGED <<overflow_checks, systVars, rcc_cfgr, flash_latency, gpioVars,
                   delayVars, observed>>

\* main.rs:97-103
SetupDividers ==
    /\ pc = "setup_97"
    /\ rcc_cfgr' = [rcc_cfgr EXCEPT !.dividers = TRUE]
    /\ writes' = Write("RCC_CFGR.DIV", 1)
    /\ pc' = "setup_106"
    /\ UNCHANGED <<overflow_checks, systVars, rcc_cr, flash_latency, gpioVars,
                   delayVars, wait_id, observed>>

\* main.rs:106-107, up to the call of wait_condition
SetupStartPll ==
    /\ pc = "setup_106"
    /\ rcc_cr' = [rcc_cr EXCEPT !.pllon = TRUE]
    /\ writes' = Write("RCC_CR.PLLON", 1)
    /\ wait_id' = "PLL"
    /\ pc' = "wait_64"
    /\ UNCHANGED <<overflow_checks, systVars, rcc_cfgr, flash_latency, gpioVars,
                   delayVars, observed>>

\* main.rs:112-113, up to the call of wait_condition
SetupSwitchSysclk ==
    /\ pc = "setup_112"
    /\ rcc_cfgr' = [rcc_cfgr EXCEPT !.sw = "PLL"]
    /\ writes' = Write("RCC_CFGR.SW", 2)
    /\ wait_id' = "SWS"
    /\ pc' = "wait_64"
    /\ UNCHANGED <<overflow_checks, systVars, rcc_cr, flash_latency, gpioVars,
                   delayVars, observed>>

\* setup returning without reprogramming the reload value
SetupSkipFinalReload ==
    /\ pc = "setup_119"
    /\ pc' = "setup_120"
    /\ UNCHANGED <<overflow_checks, systVars, rccVars, gpioVars, delayVars, setupVars>>

\* main.rs:119
SetupFinalReload ==
    /\ pc = "setup_119"
    /\ syst_rvr' = RELOAD_1MS
    /\ writes' = Write("SYST_RVR", RELOAD_1MS)
    /\ pc' = "setup_120"
    /\ UNCHANGED <<overflow_checks, syst_cur, syst_enable, syst_flag, rccVars,
                   gpioVars, delayVars, wait_id, observed>>

\* main.rs:120-121
SetupFinalClear ==
    /\ pc = "setup_120"
    /\ syst_cur' = 0
    /\ syst_flag' = FALSE
    /\ writes' = Write("SYST_CVR", 0)
    /\ wait_id' = "none"
    /\ pc' = "setup_ret"
    /\ UNCHANGED <<overflow_checks, syst_rvr, syst_enable, rccVars, gpioVars,
                   delayVars, observed>>

\* main.rs:64
WaitClear ==
    /\ pc = "wait_64"
    /\ syst_cur' = 0
    /\ syst_flag' = FALSE
    /\ fine' = 0
    /\ writes' = Write("SYST_CVR", 0)
    /\ pc' = "wait_65"
    /\ UNCHANGED <<overflow_checks, syst_rvr, syst_enable, rccVars, gpioVars,
                   delay, stop_at, c0, elapsed, latency, wait_id, observed>>

\* main.rs:65 and 70: the condition is read; when true wait_condition returns true
WaitPoll ==
    /\ pc = "wait_65"
    /\ IF Condition(wait_id)
       THEN /\ observed' = observed \cup {wait_id}
            /\ pc' = OnReady(wait_id)
       ELSE /\ pc' = "wait_66"
            /\ UNCHANGED observed
    /\ UNCHANGED <<overflow_checks, systVars, rccVars, gpioVars, delayVars,
                   wait_id, writes>>

\* has_wrapped read, and the loop going on whatever it returned
WaitHasWrappedIgnored ==
    /\ pc = "wait_66"
    /\ pc' = "wait_65"
    /\ syst_flag' = FALSE
    /\ UNCHANGED <<overflow_checks, syst_cur, syst_rvr, syst_enable, rccVars,
                   gpioVars, delayVars, setupVars>>

\* main.rs:66-68: has_wrapped reads COUNTFLAG, which the read clears
WaitHasWrapped ==
    /\ pc = "wait_66"
    /\ pc' = IF syst_flag THEN OnTimeout(wait_id) ELSE "wait_65"
    /\ syst_flag' = FALSE
    /\ UNCHANGED <<overflow_checks, syst_cur, syst_rvr, syst_enable, rccVars,
                   gpioVars, delayVars, setupVars>>

\* a second call of setup after it returned
SetupReenter ==
    /\ pc = "setup_ret"
    /\ pc' = "setup_79"
    /\ observed' = {}
    /\ writes' = <<>>
    /\ UNCHANGED <<overflow_checks, systVars, rccVars, gpioVars, delayVars, wait_id>>

(* The hardware during bring-up *)

InWait == pc \in {"wait_65", "wait_66"}

\* the counter ticks while wait_condition polls: k ticks with no poll between
TickSteps ==
    {k \in {1, syst_cur} :
        /\ k >= 1
        /\ k = 1 => (fine < MaxFine \/ syst_cur <= 1)}

Tick ==
    /\ InWait
    /\ syst_enable
    /\ \E k \in TickSteps :
        /\ syst_cur' = CounterAfter(syst_cur, syst_rvr, k)
        /\ syst_flag' = (syst_flag \/ WrapsWithin(syst_cur, syst_rvr, k))
        /\ fine' = IF k = 1 /\ syst_cur > 1 THEN fine + 1 ELSE fine
    /\ UNCHANGED <<overflow_checks, syst_rvr, syst_enable, rccVars, gpioVars,
                   pc, delay, stop_at, c0, elapsed, latency, setupVars>>

\* HSERDY is set by hardware some time after HSEON, or never
HseBecomesReady ==
    /\ rcc_cr.hseon /\ ~rcc_cr.hserdy
    /\ rcc_cr' = [rcc_cr EXCEPT !.hserdy = TRUE]
    /\ UNCHANGED <<overflow_checks, systVars, rcc_cfgr, flash_latency, gpioVars,
                   pc, delayVars, setupVars>>

\* PLLRDY is set by hardware some time after PLLON, or never
PllLocks ==
    /\ rcc_cr.pllon /\ ~rcc_cr.pllrdy
    /\ rcc_cr' = [rcc_cr EXCEPT !.pllrdy = TRUE]
    /\ UNCHANGED <<overflow_checks, systVars, rcc_cfgr, flash_latency, gpioVars,
                   pc, delayVars, setupVars>>

\* SWS follows SW some time after the write, or never
SysclkSwitches ==
    /\ rcc_cfgr.sws # rcc_cfgr.sw
    /\ rcc_cfgr' = [rcc_cfgr EXCEPT !.sws = rcc_cfgr.sw]
    /\ UNCHANGED <<overflow_checks, systVars, rcc_cr, flash_latency, gpioVars,
                   pc, delayVars, setupVars>>

InitSetup ==
    /\ overflow_checks = FALSE
    /\ syst_cur \in {0, MAX_RELOAD}
    /\ syst_rvr \in {0, MAX_RELOAD}
    /\ syst_enable = FALSE
    /\ syst_flag = FALSE
    /\ ResetRcc
    /\ gpiob_odr = {}
    /\ last_call = [op |-> "none", arg |-> 0, bsrr_writes |-> 0]
    /\ gpiob_out = {}
    /\ loop_i = 0
    /\ calls = 0
    /\ pc = "setup_79"
    /\ delay = FromInt(0)
    /\ stop_at = FromInt(0)
    /\ c0 = 0
    /\ elapsed = 0
    /\ fine = 0
    /\ latency = 0
    /\ wait_id = "none"
    /\ observed = {}
    /\ writes = <<>>

SetupStep ==
    \/ SetupEntryCheck
    \/ SetupTimeoutReload
    \/ SetupEnableCounter
    \/ SetupFlashLatency
    \/ SetupStartHse
    \/ SetupDividers
    \/ SetupStartPll
    \/ SetupSwitchSysclk
    \/ SetupFinalReload
    \/ SetupFinalClear
    \/ WaitClear
    \/ WaitPoll
    \/ WaitHasWrapped

NextSetup ==
    \/ SetupStep
    \/ SetupReenter
    \/ Tick
    \/ HseBecomesReady
    \/ PllLocks
    \/ SysclkSwitches

SpecSetup == InitSetup /\ [][NextSetup]_vars

\* the processor keeps executing setup, and the enabled counter keeps ticking
FairSetup == SpecSetup /\ WF_vars(SetupStep) /\ WF_vars(Tick)

----------------------------------------------------------------------------
(* GPIOB and LcdHardware (main.rs:28-52) *)

RS == 1
RW == 10
E == 11
DATA == 12
\* width of the data bus, main.rs:50
DATA_WIDTH == 4
\* largest u8, the argument type of main.rs:49
MAX_U8 == 255

BitOf(n, i) == (n \div (2 ^ i)) % 2 = 1

\* the pins run configures as push-pull outputs, main.rs:186-192
LcdPins == {RS, RW, E} \cup (DATA..(DATA + DATA_WIDTH - 1))

\* a write that toggles the latches (odr ^= bits) instead of setting them
ApplyToggle(odr, bits) ==
    LET low == {b \in bits : b < 16}
    IN  (odr \ low) \cup (low \ odr)

\* A value written to BSRR, as the set of its bits that are 1. Bits 0..15
\* set the pin of that number, bits 16..31 reset pin (bit - 16); set wins.
ApplyBsrr(odr, bits) ==
    (odr \ {b - 16 : b \in {x \in bits : x >= 16}}) \cup {b \in bits : b < 16}

\* the one BSRR write of set_pin!(port, pin, flag), util.rs:3-8
WritePin(pin, flag) == {IF flag THEN pin ELSE pin + 16}

\* the one BSRR write of write_pin_range(start, width, data): the low
\* `width` bits of data are set where 1 and reset where 0, from pin start
WritePinRange(start, width, data) ==
    {b \in 0..31 :
        \E i \in 0..(width - 1) :
            \/ b = start + i /\ BitOf(data, i)
            \/ b = start + i + 16 /\ ~BitOf(data, i)}

\* main.rs:41-43
LcdRs ==
    /\ pc = "lcd"
    /\ \E bit \in BOOLEAN :
        /\ gpiob_odr' = ApplyBsrr(gpiob_odr, WritePin(RS, bit))
        /\ last_call' = [op |-> "rs", arg |-> IF bit THEN 1 ELSE 0, bsrr_writes |-> 1]
    /\ UNCHANGED <<overflow_checks, systVars, rccVars, cfgVars, pc, delayVars, setupVars>>

\* main.rs:45-47
LcdEnable ==
    /\ pc = "lcd"
    /\ \E bit \in BOOLEAN :
        /\ gpiob_odr' = ApplyBsrr(gpiob_odr, WritePin(E, bit))
        /\ last_call' = [op |-> "enable", arg |-> IF bit THEN 1 ELSE 0, bsrr_writes |-> 1]
    /\ UNCHANGED <<overflow_checks, systVars, rccVars, cfgVars, pc, delayVars, setupVars>>

\* data() writing all 8 bits of the byte from PB12 up
LcdDataWholeByte ==
    /\ pc = "lcd"
    /\ \E data \in 0..MAX_U8 :
        /\ gpiob_odr' = ApplyBsrr(gpiob_odr, WritePinRange(DATA, 2 * DATA_WIDTH, data))
        /\ last_call' = [op |-> "data", arg |-> data, bsrr_writes |-> 1]
    /\ UNCHANGED <<overflow_checks, systVars, rccVars, cfgVars, pc, delayVars, setupVars>>

\* data() writing a range one pin short
LcdDataThreeBits ==
    /\ pc = "lcd"
    /\ \E data \in 0..MAX_U8 :
        /\ gpiob_odr' = ApplyBsrr(gpiob_odr, WritePinRange(DATA, DATA_WIDTH - 1, data))
        /\ last_call' = [op |-> "data", arg |-> data, bsrr_writes |-> 1]
    /\ UNCHANGED <<overflow_checks, systVars, rccVars, cfgVars, pc, delayVars, setupVars>>

\* main.rs:49-51
LcdData ==
    /\ pc = "lcd"
    /\ \E data \in 0..MAX_U8 :
        /\ gpiob_odr' = ApplyBsrr(gpiob_odr, WritePinRange(DATA, DATA_WIDTH, data))
        /\ last_call' = [op |-> "data", arg |-> data, bsrr_writes |-> 1]
    /\ UNCHANGED <<overflow_checks, systVars, rccVars, cfgVars, pc, delayVars, setupVars>>

\* output latches when the display is first used: RS, RW and E low
\* (main.rs:194-196), the other pins as they happen to be
InitialLatches ==
    {{}, {0, 2}, DATA..(DATA + DATA_WIDTH - 1), {0, 9, 13, 15}}

InitGpio ==
    /\ overflow_checks = FALSE
    /\ syst_cur = 0
    /\ syst_rvr = MAX_RELOAD
    /\ syst_enable = TRUE
    /\ syst_flag = FALSE
    /\ ResetRcc
    /\ gpiob_odr \in InitialLatches
    /\ last_call = [op |-> "none", arg |-> 0, bsrr_writes |-> 0]
    /\ gpiob_out = LcdPins
    /\ loop_i = 0
    /\ calls = 0
    /\ pc = "lcd"
    /\ delay = FromInt(0)
    /\ stop_at = FromInt(0)
    /\ c0 = 0
    /\ elapsed = 0
    /\ fine = 0
    /\ latency = 0
    /\ wait_id = "none"
    /\ observed = {}
    /\ writes = <<>>

NextGpio == LcdRs \/ LcdEnable \/ LcdData

SpecGpio == InitGpio /\ [][NextGpio]_vars

----------------------------------------------------------------------------
(* InputCapableHardware::rw (main.rs:127-151, feature "input") *)

\* rw(true) asserting R/W before the bus is released
RwEnterAssertFirst ==
    /\ pc = "lcd"
    /\ gpiob_odr' = ApplyBsrr(gpiob_odr, WritePin(RW, TRUE))
    /\ last_call' = [op |-> "rw", arg |-> 1, bsrr_writes |-> 1]
    /\ loop_i' = 0
    /\ pc' = "rw_134"
    /\ UNCHANGED <<overflow_checks, systVars, rccVars, gpiob_out, calls,
                   delayVars, setupVars>>

\* main.rs:128-130, rw(true): the data bus outputs are set to 0
RwEnterZero ==
    /\ pc = "lcd"
    /\ gpiob_odr' = ApplyBsrr(gpiob_odr, WritePinRange(DATA, DATA_WIDTH, 0))
    /\ last_call' = [op |-> "rw", arg |-> 1, bsrr_writes |-> 1]
    /\ loop_i' = 0
    /\ pc' = "rw_134"
    /\ UNCHANGED <<overflow_checks, systVars, rccVars, gpiob_out, calls,
                   delayVars, setupVars>>

\* main.rs:133-135, one iteration: pin DATA + i becomes a floating input
RwEnterInput ==
    /\ pc = "rw_134"
    /\ gpiob_out' = gpiob_out \ {DATA + loop_i}
    /\ IF loop_i + 1 < DATA_WIDTH
       THEN loop_i' = loop_i + 1 /\ pc' = "rw_134"
       ELSE loop_i' = 0 /\ pc' = "rw_138"
    /\ UNCHANGED <<overflow_checks, systVars, rccVars, gpiob_odr, last_call, calls,
                   delayVars, setupVars>>

\* main.rs:138, R/W is set to 1 and rw returns
RwEnterAssert ==
    /\ pc = "rw_138"
    /\ gpiob_odr' = ApplyBsrr(gpiob_odr, WritePin(RW, TRUE))
    /\ last_call' = [last_call EXCEPT !.bsrr_writes = @ + 1]
    /\ pc' = "lcd"
    /\ UNCHANGED <<overflow_checks, systVars, rccVars, cfgVars, delayVars, setupVars>>

\* rw(false) reconfiguring the pins without the settling delay
RwLeaveNoDelay ==
    /\ pc = "lcd"
    /\ calls < MaxCalls
    /\ gpiob_odr' = ApplyBsrr(gpiob_odr, WritePin(RW, FALSE))
    /\ last_call' = [op |-> "rw", arg |-> 0, bsrr_writes |-> 1]
    /\ calls' = calls + 1
    /\ elapsed' = 0
    /\ loop_i' = 0
    /\ pc' = "rw_148"
    /\ UNCHANGED <<overflow_checks, systVars, rccVars, gpiob_out,
                   delay, stop_at, c0, fine, latency, setupVars>>

\* main.rs:141-144, rw(false): R/W is set to 0, then delay_us(self.syst, 1)
\* is called
RwLeaveDeassert ==
    /\ pc = "lcd"
    /\ calls < MaxCalls
    /\ gpiob_odr' = ApplyBsrr(gpiob_odr, WritePin(RW, FALSE))
    /\ last_call' = [op |-> "rw", arg |-> 0, bsrr_writes |-> 1]
    /\ calls' = calls + 1
    /\ delay' = FromInt(1)
    /\ elapsed' = 0
    /\ pc' = "delay_21"
    /\ UNCHANGED <<overflow_checks, systVars, rccVars, gpiob_out, loop_i,
                   stop_at, c0, fine, latency, setupVars>>

\* main.rs:144, delay_us has returned to rw
RwLeaveDelayed ==
    /\ pc = "delay_ret"
    /\ last_call.op = "rw"
    /\ loop_i' = 0
    /\ pc' = "rw_148"
    /\ UNCHANGED <<overflow_checks, systVars, rccVars, gpiob_odr, last_call,
                   gpiob_out, calls, delayVars, setupVars>>

\* main.rs:147-149, one iteration: pin DATA + i becomes a push-pull output
RwLeaveOutput ==
    /\ pc = "rw_148"
    /\ gpiob_out' = gpiob_out \cup {DATA + loop_i}
    /\ IF loop_i + 1 < DATA_WIDTH
       THEN loop_i' = loop_i + 1 /\ pc' = "rw_148"
       ELSE loop_i' = 0 /\ pc' = "lcd"
    /\ UNCHANGED <<overflow_checks, systVars, rccVars, gpiob_odr, last_call, calls,
                   delayVars, setupVars>>

InitRw ==
    /\ overflow_checks \in BOOLEAN
    /\ syst_cur \in {0, 5, MAX_RELOAD}
    /\ syst_rvr = MAX_RELOAD
    /\ syst_enable = TRUE
    /\ syst_flag = FALSE
    /\ ResetRcc
    /\ gpiob_odr \in InitialLatches
    /\ last_call = [op |-> "none", arg |-> 0, bsrr_writes |-> 0]
    /\ gpiob_out = LcdPins
    /\ loop_i = 0
    /\ calls = 0
    /\ pc = "lcd"
    /\ delay = FromInt(0)
    /\ stop_at = FromInt(0)
    /\ c0 = 0
    /\ elapsed = 0
    /\ fine = 0
    /\ latency = 0
    /\ wait_id = "none"
    /\ observed = {}
    /\ writes = <<>>

NextRw ==
    \/ RwEnterZero
    \/ RwEnterInput
    \/ RwEnterAssert
    \/ RwLeaveDeassert
    \/ DelaySnapshot
    \/ DelaySpin
    \/ DelayExit
    \/ RwLeaveDelayed
    \/ RwLeaveOutput

SpecRw == InitRw /\ [][NextRw]_vars

----------------------------------------------------------------------------
(* run, main.rs:175-219: bring-up, counter and port configuration, then
   the display driver calling the capabilities of LcdHardware *)

\* the call of delay_us made as in util.rs, reprogramming the reload value
LcdDelayReprogram(d) ==
    /\ pc = "lcd"
    /\ last_call' = [op |-> "delay_us", arg |-> d.lo, bsrr_writes |-> 0]
    /\ delay' = d
    /\ elapsed' = 0
    /\ syst_rvr' = d.lo
    /\ writes' = Write("SYST_RVR", d.lo)
    /\ pc' = "delay_21"
    /\ UNCHANGED <<overflow_checks, syst_cur, syst_enable, syst_flag, rccVars,
                   gpiob_odr, cfgVars, stop_at, c0, fine, latency, wait_id, observed>>

\* main.rs:55-57, lcd::Delay::delay_us up to the call of delay_us
LcdDelay(d) ==
    /\ pc = "lcd"
    /\ last_call' = [op |-> "delay_us", arg |-> d.lo, bsrr_writes |-> 0]
    /\ delay' = d
    /\ elapsed' = 0
    /\ pc' = "delay_21"
    /\ UNCHANGED <<overflow_checks, systVars, rccVars, gpiob_odr, cfgVars,
                   stop_at, c0, fine, latency, setupVars>>

\* delays the display driver asks for
RunDelays == {FromInt(1), FromInt(4100)}

\* main.rs:200-218
LcdCallDelay == \E d \in RunDelays : LcdDelay(d)

\* counter values found some time later, the counter running
LaterValues == {c \in {0, 5, MAX_RELOAD} : c <= syst_rvr}

\* the program runs on for less than one period of the counter, which
\* goes on counting down: a greater value is one from after a wrap
TimePasses ==
    /\ \E c \in LaterValues :
        /\ syst_cur' = c
        /\ syst_flag' = (syst_flag \/ c > syst_cur)
    /\ UNCHANGED <<syst_rvr, syst_enable>>

\* main.rs:57, delay_us has returned to the display driver; the locals of
\* delay_us are gone
LcdDelayReturns ==
    /\ pc = "delay_ret"
    /\ last_call.op = "delay_us"
    /\ TimePasses
    /\ delay' = FromInt(0)
    /\ stop_at' = FromInt(0)
    /\ c0' = 0
    /\ elapsed' = 0
    /\ fine' = 0
    /\ latency' = 0
    /\ pc' = "lcd"
    /\ UNCHANGED <<overflow_checks, rccVars, gpioVars, setupVars>>

\* run going on without calling setup
RunSkipSetup ==
    /\ pc = "run_176"
    /\ pc' = "run_179"
    /\ UNCHANGED <<overflow_checks, systVars, rccVars, gpioVars, delayVars, setupVars>>

\* main.rs:176, the call
RunCallSetup ==
    /\ pc = "run_176"
    /\ pc' = "setup_79"
    /\ UNCHANGED <<overflow_checks, systVars, rccVars, gpioVars, delayVars, setupVars>>

\* main.rs:176, setup has returned; its polling loops are over
RunSetupReturns ==
    /\ pc = "setup_ret"
    /\ fine' = 0
    /\ pc' = "run_179"
    /\ UNCHANGED <<overflow_checks, systVars, rccVars, gpioVars, delay, stop_at,
                   c0, elapsed, latency, setupVars>>

\* main.rs:179
RunEnableCounter ==
    /\ pc = "run_179"
    /\ syst_enable' = TRUE
    /\ writes' = Write("SYST_CSR", 1)
    /\ pc' = "run_180"
    /\ UNCHANGED <<overflow_checks, syst_cur, syst_rvr, syst_flag, rccVars,
                   gpioVars, delayVars, wait_id, observed>>

\* run leaving the reload value as setup programmed it
RunKeepReload ==
    /\ pc = "run_180"
    /\ pc' = "run_183"
    /\ UNCHANGED <<overflow_checks, systVars, rccVars, gpioVars, delayVars, setupVars>>

\* main.rs:180
RunSetReload ==
    /\ pc = "run_180"
    /\ syst_rvr' = MAX_RELOAD
    /\ writes' = Write("SYST_RVR", MAX_RELOAD)
    /\ pc' = "run_183"
    /\ UNCHANGED <<overflow_checks, syst_cur, syst_enable, syst_flag, rccVars,
                   gpioVars, delayVars, wait_id, observed>>

\* main.rs:183-184
RunEnablePorts ==
    /\ pc = "run_183"
    /\ writes' = writes \o <<<<"RCC_APB2ENR.IOPBEN", 1>>, <<"RCC_APB2ENR.IOPAEN", 1>>>>
    /\ loop_i' = 0
    /\ pc' = "run_187"
    /\ UNCHANGED <<overflow_checks, systVars, rccVars, gpiob_odr, last_call,
                   gpiob_out, calls, delayVars, wait_id, observed>>

\* main.rs:186-188, one iteration
RunConfigData ==
    /\ pc = "run_187"
    /\ gpiob_out' = gpiob_out \cup {DATA + loop_i}
    /\ IF loop_i + 1 < DATA_WIDTH
       THEN loop_i' = loop_i + 1 /\ pc' = "run_187"
       ELSE loop_i' = 0 /\ pc' = "run_190"
    /\ UNCHANGED <<overflow_checks, systVars, rccVars, gpiob_odr, last_call, calls,
                   delayVars, setupVars>>

\* main.rs:190-192
RunConfigControl ==
    /\ pc = "run_190"
    /\ gpiob_out' = gpiob_out \cup {RS, RW, E}
    /\ pc' = "run_194"
    /\ UNCHANGED <<overflow_checks, systVars, rccVars, gpiob_odr, last_call,
                   loop_i, calls, delayVars, setupVars>>

\* main.rs:194-196
RunControlLow ==
    /\ pc = "run_194"
    /\ gpiob_odr' =
         ApplyBsrr(ApplyBsrr(ApplyBsrr(gpiob_odr, WritePin(RS, FALSE)),
                             WritePin(RW, FALSE)),
                   WritePin(E, FALSE))
    /\ pc' = "run_200"
    /\ UNCHANGED <<overflow_checks, systVars, rccVars, last_call, cfgVars,
                   delayVars, setupVars>>

\* main.rs:200, the capabilities are handed to the display driver
RunDisplayNew ==
    /\ pc = "run_200"
    /\ TimePasses
    /\ pc' = "lcd"
    /\ UNCHANGED <<overflow_checks, rccVars, gpioVars, delayVars, setupVars>>

InitRun ==
    /\ overflow_checks = FALSE
    /\ syst_cur \in {0, MAX_RELOAD}
    /\ syst_rvr \in {0, MAX_RELOAD}
    /\ syst_enable = FALSE
    /\ syst_flag = FALSE
    /\ ResetRcc
    /\ gpiob_odr = {}
    /\ last_call = [op |-> "none", arg |-> 0, bsrr_writes |-> 0]
    /\ gpiob_out = {}
    /\ loop_i = 0
    /\ calls = 0
    /\ pc = "run_176"
    /\ delay = FromInt(0)
    /\ stop_at = FromInt(0)
    /\ c0 = 0
    /\ elapsed = 0
    /\ fine = 0
    /\ latency = 0
    /\ wait_id = "none"
    /\ observed = {}
    /\ writes = <<>>

RunStep ==
    \/ RunCallSetup
    \/ RunSetupReturns
    \/ RunEnableCounter
    \/ RunSetReload
    \/ RunEnablePorts
    \/ RunConfigData
    \/ RunConfigControl
    \/ RunControlLow
    \/ RunDisplayNew

NextRun ==
    \/ RunStep
    \/ SetupStep
    \/ Tick
    \/ HseBecomesReady
    \/ PllLocks
    \/ SysclkSwitches
    \/ LcdRs
    \/ LcdEnable
    \/ LcdData
    \/ LcdCallDelay
    \/ DelaySnapshot
    \/ DelaySpin
    \/ DelayExit
    \/ LcdDelayReturns

SpecRun == InitRun /\ [][NextRun]_vars

----------------------------------------------------------------------------
(* util.rs delay_us (reload/wrap flag) *)

\* util.rs:11; the reload register keeps the low 24 bits
UtilSetReload ==
    /\ pc = "udelay_11"
    /\ syst_rvr' = delay.lo
    /\ pc' = "udelay_12"
    /\ UNCHANGED <<overflow_checks, syst_cur, syst_enable, syst_flag, rccVars,
                   gpioVars, delayVars, setupVars>>

\* util.rs:12
UtilClear ==
    /\ pc = "udelay_12"
    /\ syst_cur' = 0
    /\ syst_flag' = FALSE
    /\ elapsed' = 0
    /\ fine' = 0
    /\ pc' = "udelay_13"
    /\ UNCHANGED <<overflow_checks, syst_rvr, syst_enable, rccVars, gpioVars,
                   delay, stop_at, c0, latency, setupVars>>

\* util.rs:13-14: has_wrapped reads COUNTFLAG set, the loop ends
UtilWrapped ==
    /\ pc = "udelay_13"
    /\ syst_flag
    /\ syst_flag' = FALSE
    /\ pc' = "udelay_ret"
    /\ UNCHANGED <<overflow_checks, syst_cur, syst_rvr, syst_enable, rccVars,
                   gpioVars, delayVars, setupVars>>

\* a counter at 0 with reload value 0 stays at 0: it counts no tick
CountedTicks(k) == IF syst_cur = 0 /\ syst_rvr = 0 THEN 0 ELSE k

\* util.rs:13: iterations that read COUNTFLAG clear, and the ticks meanwhile
UtilSpin ==
    /\ pc = "udelay_13"
    /\ ~syst_flag
    /\ syst_enable
    /\ \E k \in TickSteps :
        /\ syst_cur' = CounterAfter(syst_cur, syst_rvr, k)
        /\ syst_flag' = WrapsWithin(syst_cur, syst_rvr, k)
        /\ elapsed' = elapsed + CountedTicks(k)
        /\ fine' = IF k = 1 /\ syst_cur > 1 THEN fine + 1 ELSE fine
    /\ UNCHANGED <<overflow_checks, syst_rvr, syst_enable, rccVars, gpioVars,
                   pc, delay, stop_at, c0, latency, setupVars>>

UtilDelays ==
    {FromInt(n) : n \in 0..(MaxSmallDelay + 1)}
    \cup {FromInt(10), FromInt(1000), FromInt(HalfRangeDelay), FromInt(MAX_RELOAD)}
    \cup {U32(1, n) : n \in 1..(MaxNear + 1)}

InitUtil ==
    /\ overflow_checks = FALSE
    /\ syst_cur \in {0, 1, RELOAD_1MS}
    /\ syst_rvr \in {RELOAD_1MS, MAX_RELOAD}
    /\ syst_enable = TRUE
    /\ syst_flag \in BOOLEAN
    /\ ResetRcc
    /\ gpiob_odr = {}
    /\ last_call = [op |-> "none", arg |-> 0, bsrr_writes |-> 0]
    /\ gpiob_out = {}
    /\ loop_i = 0
    /\ calls = 0
    /\ pc = "udelay_11"
    /\ delay \in UtilDelays
    /\ stop_at = FromInt(0)
    /\ c0 = 0
    /\ elapsed = 0
    /\ fine = 0
    /\ latency = 0
    /\ wait_id = "none"
    /\ observed = {}
    /\ writes = <<>>

NextUtil == UtilSetReload \/ UtilClear \/ UtilWrapped \/ UtilSpin

SpecUtil == InitUtil /\ [][NextUtil]_vars

\* the processor keeps executing delay_us
FairUtil == SpecUtil /\ WF_vars(NextUtil)

----------------------------------------------------------------------------
(* Claims about main.rs delay_us *)

InRange == BelowHalfRange(Product(delay))
FreeRunning == syst_enable /\ syst_rvr = MAX_RELOAD
Waited == AtLeast(elapsed, Product(delay))
InRangeCall == pc = "delay_21" /\ FreeRunning /\ InRange
Returned == pc = "delay_ret"

\* C1: with the counter free-running modulo 2^24 and delay * 9 < 2^23,
\* delay_us does not return before delay * 9 ticks have elapsed since the
\* start value was read, also when the counter wraps through zero.
C1_NoEarlyReturn == (pc = "delay_ret" /\ FreeRunning /\ InRange) => Waited

\* a return after a wait of at least one microsecond during which the
\* counter wrapped through zero
C1_Witness ==
    /\ pc = "delay_ret" /\ FreeRunning /\ InRange
    /\ delay.lo >= 1
    /\ elapsed > c0
    /\ syst_cur > c0

\* C2: with the counter free-running and delay * 9 < 2^23, delay = 0
\* included, delay_us eventually returns: it neither spins forever nor
\* aborts.
C2_Returns == InRangeCall ~> Returned

\* C3 as stated: for every delay with delay * 9 >= 2^23 the wait is too
\* short: delay_us returns before delay * 9 ticks have elapsed.
C3_TooShort == (pc = "delay_ret" /\ FreeRunning /\ ~InRange) => ~Waited

\* the ticks by which the smallest delay beyond the half range exceeds it
BoundarySlack == (HalfRangeDelay + 1) * TICKS_PER_US - Two23

\* C3, amended: for every delay with delay * 9 >= 2^23 the wait is too
\* short whenever the loop first reads the counter fewer than
\* BoundarySlack (4) ticks after the start value was read.
C3_TooShortEarlyRead ==
    (pc = "delay_ret" /\ FreeRunning /\ ~InRange /\ latency < BoundarySlack) => ~Waited

\* a return from the smallest delay beyond the half range, too early
C3_Witness ==
    /\ pc = "delay_ret" /\ FreeRunning
    /\ delay = FromInt(HalfRangeDelay + 1)
    /\ ~InRange
    /\ latency < BoundarySlack
    /\ ~Waited

\* C4: as the doc comment has it, delay_us waits at least delay
\* microseconds for every delay below 0x8000_0000.
C4_DocPrecondition == (pc = "delay_ret" /\ FreeRunning /\ delay.hi < 128) => Waited

----------------------------------------------------------------------------
(* Claims about setup and wait_condition *)

Written(reg) == \E i \in DOMAIN writes : writes[i][1] = reg
FinalReloadWritten == \E i \in DOMAIN writes : writes[i] = <<"SYST_RVR", RELOAD_1MS>>

\* the six transitions of the bring-up, in the order of the state names
Reached(i) ==
    CASE i = 1 -> Written("RCC_CR.HSEON")
      [] i = 2 -> "HSE" \in observed
      [] i = 3 -> Written("RCC_CR.PLLON")
      [] i = 4 -> "PLL" \in observed
      [] i = 5 -> Written("RCC_CFGR.SW")
      [] i = 6 -> "SWS" \in observed

Rank == Cardinality({i \in 1..6 : Reached(i)})
BringUpState ==
    <<"Idle", "OscillatorStarting", "OscillatorReady", "PLLLocking", "PLLLocked",
      "SwitchingSystemClock", "Running">>[Rank + 1]
InOrder ==
    /\ \A i \in 2..6 : Reached(i) => Reached(i - 1)
    /\ Written("RCC_CR.PLLON") => Written("RCC_CFGR.DIV")

\* C5: within one call of setup the bring-up states are entered in the
\* order Idle, OscillatorStarting, OscillatorReady, PLLLocking, PLLLocked,
\* SwitchingSystemClock, Running, each only from its predecessor, and
\* setup returns only in Running.
C5_ForwardOrder ==
    [][pc' # "setup_79" =>
         /\ InOrder'
         /\ Rank' \in {Rank, Rank + 1}
         /\ pc' = "setup_ret" => BringUpState' = "Running"]_vars

\* a successful run: returned with all six transitions taken
C5_Witness == pc = "setup_ret" /\ Rank = 6 /\ Len(writes) >= 6

NoLaterWrites(i) == \A j \in (i + 1)..6 : ~Reached(j)

C6_NoAdvance ==
    /\ ~rcc_cr.hserdy => (NoLaterWrites(2) /\ ~FinalReloadWritten)
    /\ ~rcc_cr.pllrdy => (NoLaterWrites(4) /\ ~FinalReloadWritten)
    /\ rcc_cfgr.sws # "PLL" => ~FinalReloadWritten

WaitingForHse == pc \in {"wait_64", "wait_65", "wait_66"} /\ wait_id = "HSE"
WaitingForPll == pc \in {"wait_64", "wait_65", "wait_66"} /\ wait_id = "PLL"
WaitingForSws == pc \in {"wait_64", "wait_65", "wait_66"} /\ wait_id = "SWS"
HseReadyOrHalt == rcc_cr.hserdy \/ pc = "panic_93"
PllLockedOrHalt == rcc_cr.pllrdy \/ pc = "panic_108"
SwitchedOrHalt == rcc_cfgr.sws = "PLL" \/ pc = "panic_114"

\* C6: at each of the three guarded transitions, while the status
\* condition has not become true none of the later register writes (PLL
\* enable, SYSCLK switch, final reload) is made, and a wait whose condition
\* never becomes true ends in the panic of that transition.
C6_TimeoutHalts ==
    /\ []C6_NoAdvance
    /\ WaitingForHse ~> HseReadyOrHalt
    /\ WaitingForPll ~> PllLockedOrHalt
    /\ WaitingForSws ~> SwitchedOrHalt

\* the PLL never locked: setup halted at main.rs:108 with HSE ready
C6_Witness ==
    /\ pc = "panic_108"
    /\ rcc_cr.hserdy /\ ~rcc_cr.pllrdy
    /\ ~Written("RCC_CFGR.SW")

\* C7: when the PLL is locked at entry, also on a second call after a
\* successful bring-up, setup panics before it writes any register.
C7_EntryCheck == pc = "panic_80" => (rcc_cr.pllrdy /\ writes = <<>>)

\* the second call of setup, halted at main.rs:80
C7_Witness == pc = "panic_80" /\ rcc_cr.pllrdy /\ syst_rvr = RELOAD_1MS

\* C8: setup returns normally only with HSE ready, PLL locked and SYSCLK on
\* PLL all observed and with the counter reprogrammed (reload 9000 - 1,
\* current value reset); every other end is a panic.
C8_Outcomes ==
    pc = "setup_ret" =>
        /\ observed = {"HSE", "PLL", "SWS"}
        /\ syst_rvr = RELOAD_1MS
        /\ syst_rvr # TIMEOUT_RELOAD
        /\ syst_cur = 0
        /\ ~syst_flag
        /\ syst_enable

\* a normal return
C8_Witness == pc = "setup_ret" /\ observed = {"HSE", "PLL", "SWS"} /\ syst_rvr = RELOAD_1MS

----------------------------------------------------------------------------
(* Claims about LcdHardware *)

DataPins == DATA..(DATA + DATA_WIDTH - 1)

\* C9: for each of the 16 nibble values v, data(v) is one write to BSRR
\* after which PB12..PB15 hold exactly the bits of v.
C9_NibbleOnBus ==
    (last_call.op = "data" /\ last_call.arg < 16) =>
        /\ last_call.bsrr_writes = 1
        /\ \A i \in 0..(DATA_WIDTH - 1) :
            (DATA + i \in gpiob_odr) <=> BitOf(last_call.arg, i)

\* data(0b1010) on a bus that held 0b1111: PB13 and PB15 high, PB12 and
\* PB14 cleared
C9_Witness ==
    /\ last_call.op = "data" /\ last_call.arg = 10
    /\ gpiob_odr \cap DataPins = {13, 15}

----------------------------------------------------------------------------
(* Claims about util.rs delay_us *)

\* C10: the reload/wrap-flag delay_us(d) programs the reload register to
\* d * 9 - 1, resets the counter and returns only after the wrap flag was
\* seen, that is after d microseconds' worth (d * 9) of counter ticks.
C10_ReloadWait ==
    /\ pc \in {"udelay_12", "udelay_13", "udelay_ret"} => FromInt(syst_rvr) = Ticks(delay)
    /\ pc = "udelay_ret" => AtLeast(elapsed, Product(delay))

----------------------------------------------------------------------------
(* Claims about InputCapableHardware::rw *)

DataOutputs == DataPins \cap gpiob_out
ReadWriteHigh == RW \in gpiob_odr

\* C11: rw(true) sets the data bus outputs to 0, then makes the four pins
\* floating inputs, and only then asserts R/W; rw(false) deasserts R/W,
\* then waits at least one microsecond (9 ticks), and only then makes the
\* four pins push-pull outputs.
C11_RwOrder ==
    [][/\ DataOutputs' # DataOutputs /\ DataOutputs' \subseteq DataOutputs
            => (gpiob_odr \cap DataPins = {} /\ last_call.arg = 1)
       /\ (~ReadWriteHigh /\ ReadWriteHigh')
            => (DataOutputs = {} /\ gpiob_odr \cap DataPins = {})
       /\ DataOutputs' # DataOutputs /\ DataOutputs \subseteq DataOutputs'
            => (~ReadWriteHigh /\ last_call.arg = 0 /\ elapsed >= TICKS_PER_US)
       /\ (ReadWriteHigh /\ ~ReadWriteHigh') => DataOutputs = {}]_vars

\* rw(false) after rw(true), half way through its loop: R/W low, the
\* delay over, PB12 and PB13 outputs again, PB14 and PB15 still inputs
C11_Witness ==
    /\ pc = "rw_148" /\ loop_i = 2
    /\ DataOutputs = {DATA, DATA + 1}
    /\ ~ReadWriteHigh
    /\ elapsed >= TICKS_PER_US

\* C16: from the initial configuration (R/W low, data pins push-pull
\* outputs), whatever the sequence of rw(true) and rw(false) calls, in no
\* state, the states inside a call included, is R/W high while a data bus
\* pin is a push-pull output.
C16_NoBusContention == ~(ReadWriteHigh /\ DataOutputs # {})

\* read mode entered again after the bus had been given back
C16_Witness ==
    /\ pc = "lcd" /\ calls >= 1
    /\ ReadWriteHigh /\ DataOutputs = {}

----------------------------------------------------------------------------
(* Claims about write_pin *)

SetOnce(pin) == ApplyBsrr(gpiob_odr, WritePin(pin, TRUE))
SetTwice(pin) == ApplyBsrr(SetOnce(pin), WritePin(pin, TRUE))
SameCallAgain(op) ==
    /\ last_call.op = op /\ last_call.arg = 1
    /\ last_call'.op = op /\ last_call'.arg = 1

\* C12: write_pin(role, true) twice in a row leaves the output latches of
\* the whole bank as one call does, for RS, RW and E and every prior state
\* of the latches.
C12_SetTwiceIsOnce ==
    [][/\ \A pin \in {RS, RW, E} : SetTwice(pin) = SetOnce(pin)
       /\ SameCallAgain("rs") => gpiob_odr' = gpiob_odr
       /\ SameCallAgain("enable") => gpiob_odr' = gpiob_odr]_vars

\* rs(true) and enable(true) have both been called on latches that held
\* other pins high
C12_Witness ==
    /\ last_call.op = "enable" /\ last_call.arg = 1
    /\ gpiob_odr = {0, 2, RS, E}

----------------------------------------------------------------------------
(* Claims about the pins each capability touches *)

LowNibble(b) == b % (2 ^ DATA_WIDTH)
OthersKept(pins) == gpiob_odr' \ pins = gpiob_odr \ pins

----------------------------------------------------------------------------
(* Claims about run *)

DisplayUsed == last_call.op # "none"
SetupHalted == pc \in {"panic_80", "panic_93", "panic_108", "panic_114"}
SetupReturned == FinalReloadWritten /\ pc # "setup_120"
SetupRuns ==
    Cardinality({i \in DOMAIN writes : writes[i] = <<"SYST_RVR", TIMEOUT_RELOAD>>})

\* C13: in run, setup is entered once only, from the first line of run; a
\* display capability (rs, enable, data, delay_us) has been called only
\* after that one setup returned with the bring-up in Running; and once
\* setup has halted with a panic no capability has been called, no pin of
\* GPIOB has been configured or written, and none ever is.
C13_SetupOnceFirst ==
    [][/\ (pc' = "setup_79" /\ pc # "setup_79") => pc = "run_176"
       /\ DisplayUsed' =>
            (SetupReturned' /\ BringUpState' = "Running" /\ SetupRuns' = 1)
       /\ SetupHalted' => (~DisplayUsed' /\ gpiob_odr' = {} /\ gpiob_out' = {})
       /\ SetupHalted => (pc' = pc /\ UNCHANGED gpioVars)]_vars

\* the display driver has put a byte on the bus, after the one setup
C13_Witness ==
    /\ pc = "lcd" /\ last_call.op = "data" /\ last_call.arg = 165
    /\ SetupRuns = 1

IsCounterConfig(w) == w[1] \in {"SYST_RVR", "SYST_CSR"}
CounterConfigWrites == SelectSeq(writes, IsCounterConfig)
CounterConfigKept ==
    /\ CounterConfigWrites' = CounterConfigWrites
    /\ UNCHANGED <<syst_rvr, syst_enable>>
RunConfigured == \E i \in DOMAIN writes : writes[i] = <<"SYST_RVR", MAX_RELOAD>>

\* C17 as stated: once setup has returned, no step of the program writes
\* the reload register or the enable bit of the counter.
C17_NoWriteAfterSetup == [][SetupReturned => CounterConfigKept]_vars

\* C17: once run has programmed the reload value 0xFFFFFF (main.rs:180),
\* no step of the program, delay_us included, writes the reload register
\* or the enable bit of the counter.
C17_NoWriteAfterRunConfig == [][RunConfigured => CounterConfigKept]_vars

\* delay_us has returned to the display driver with the reload value and
\* the enable bit as run left them
C17_Witness ==
    /\ pc = "delay_ret" /\ last_call.op = "delay_us"
    /\ RunConfigured /\ Len(CounterConfigWrites) = 5

\* C19: whenever delay_us is called or running in run, the counter is
\* enabled with reload 0xFFFFFF, not the 1 ms reload setup left.
C19_FreeRunningInDelay ==
    pc \in {"delay_21", "delay_25", "delay_ret"} =>
        (FreeRunning /\ syst_rvr # RELOAD_1MS)

\* the display driver calls delay_us(4100) after setup left reload 8999
C19_Witness ==
    /\ pc = "delay_21" /\ delay = FromInt(4100)
    /\ FinalReloadWritten /\ FreeRunning

----------------------------------------------------------------------------
(* Claims about wait_condition *)

FlagBeforeCondition == InWait /\ syst_flag /\ ~Condition(wait_id)
ReturnedTrue == wait_id \in observed
FlagFoundSet == pc = "wait_66" /\ syst_flag

----------------------------------------------------------------------------
(* Claims about the termination of setup *)

SetupEntered == pc = "setup_79"
SetupEnded == pc \in {"setup_ret", "panic_80", "panic_93", "panic_108", "panic_114"}
WaitIsBounded ==
    pc \in {"wait_64", "wait_65", "wait_66"} =>
        (syst_enable /\ syst_rvr = TIMEOUT_RELOAD)

\* C15: with the processor running and the enabled counter ticking, every
\* call of setup ends, by returning or by one of its panics, whether or
\* not the status bits ever change; in every wait the counter is enabled
\* with reload 50000 - 1.
C15_SetupEnds ==
    /\ []WaitIsBounded
    /\ SetupEntered ~> SetupEnded

\* SYSCLK never switched: the third wait timed out and setup panicked
C15_Witness ==
    /\ pc = "panic_114" /\ rcc_cfgr.sws # "PLL"
    /\ syst_enable /\ syst_rvr = TIMEOUT_RELOAD

----------------------------------------------------------------------------
(* Claims about the range of util.rs delay_us *)

UtilCalled == pc = "udelay_11" /\ syst_enable /\ delay.hi = 0
UtilReturned == pc = "udelay_ret"
UtilNotEarly == (UtilReturned /\ delay.hi = 0) => elapsed >= delay.lo

\* C18: for every argument d in 0..2^24 - 1, with the counter enabled, the
\* reload/wrap-flag delay_us returns, and not before d ticks have elapsed
\* since it reset the counter; d = 0 included.
C18_FullRange ==
    /\ []UtilNotEarly
    /\ UtilCalled ~> UtilReturned

====
